---- MODULE Spec2Model ----
(***************************************************************************)
(* Model of src/Telebot_Original_V1.py, the relay that buffers the         *)
(* messages of a chat and mails them as one batch, and of src/Telebot.py,  *)
(* the relay without buffer.                                               *)
(*                                                                         *)
(*   Spec       Telebot_Original_V1.py as it runs: webhook() submits       *)
(*              updates to the loop, which runs handle_message from its    *)
(*              first line: the dedup of update ids under processed_lock   *)
(*              (lines 195-201), with cleanup_processed (lines 137-143)    *)
(*              called while the lock is held. The handler never gets past *)
(*              that call, so the rest of handle_message is not part of    *)
(*              any behaviour of Spec.                                     *)
(*   SpecFlush  flush_chat_buffer (lines 155-187) and send_email_smtp      *)
(*              (lines 68-114) applied to the buffers and timers that      *)
(*              lines 246-271 of handle_message build: the functions are   *)
(*              started on such a state by the timers' callbacks and by    *)
(*              direct calls, and run to their end.                        *)
(*   SpecRelay  src/Telebot.py: handle_message (lines 105-160) mails every *)
(*              message at once through send_email (lines 69-99).          *)
(*                                                                         *)
(* Everything runs on one asyncio event loop (GLOBAL_LOOP); only           *)
(* send_email_smtp runs in an executor thread.                             *)
(***************************************************************************)
EXTENDS Integers, Sequences, FiniteSets, TLC

\* ------------------------------------------------------------ constants
\* loop.call_later(60, ...)
DEBOUNCE_INTERVAL == 60
PROCESSED_TTL == 120
\* send_email_smtp(..., max_retries=3)
MAX_RETRIES == 3

\* ------------------------------------------------------------ bounds
\* the clock stops at MaxTime
MaxTime == 150
\* the appends that built the buffers of SpecFlush were made at multiples of
\* ArrivalStep; time passes up to the next multiple or the next timer deadline
ArrivalStep == 50
\* number of appends that built the buffers of SpecFlush
MaxEvents == 2
\* appends to chats other than chat 1
MaxOther == 1
\* direct calls of flush_chat_buffer in SpecFlush
MaxFlushCalls == 1
\* number of webhook deliveries in Spec
MaxHandlers == 3
\* distinct update ids in Spec
MaxUid == 2
\* number of messages handled by SpecRelay
MaxRelayMsgs == 2

Chats == {1, 2}
Events == 1..MaxEvents
Handlers == 1..MaxHandlers
Uids == 1..MaxUid

VARIABLES
  now,                \* time.time() / loop.time()
  PROCESSED_UPDATES,  \* update id -> time recorded
  processed_lock,     \* 0: free, else the handler that holds it
  hq,                 \* updates submitted to the loop: update id and time, in order
  hpc,                \* per submitted update: where its handle_message is
  per_chat_buffers,   \* chat -> buffer record, for the chats that have a buffer
  timers,             \* every handle call_later returned, then every other flush task
  buffers_lock,       \* FIFO of coroutines at "async with buffers_lock"; Head holds
  send,               \* the send_email_smtp call in progress
  creds,              \* EMAIL_SENDER and EMAIL_PASSWORD are set
  SENDGRID_API_KEY,   \* the environment sets SENDGRID_API_KEY
  downloads,          \* the files in downloads/
  appends,            \* history: every append to a buffer
  batches,            \* history: every (subj, body, attachments) handed to send_email
  attempts,           \* history: every SMTP attempt
  sleeps,             \* history: every time.sleep of send_email_smtp
  email_log,          \* rows of email_log.csv
  fallback_calls,     \* history: every call of the HTTP mail API
  sent_msgs,          \* bot.send_message calls of flush_chat_buffer
  message_log,        \* rows of message_log.csv
  relay_msgs,         \* Telebot.py: the messages handle_message was called with
  relay_pc,           \* Telebot.py: where the handler of the last message is
  relay_attachments,  \* Telebot.py: attachments of the handler
  email_status,       \* Telebot.py: what send_email returned to the handler
  relay_smtp,         \* Telebot.py history: every SMTP exchange of send_email
  relay_email_log,    \* Telebot.py: rows of email_log.csv
  relay_message_log,  \* Telebot.py: rows of message_log.csv
  relay_replies,      \* Telebot.py history: every reply_text of handle_message
  relay_raised        \* Telebot.py: the messages whose handler ended by an exception

dedupVars == <<PROCESSED_UPDATES, processed_lock, hq, hpc>>
bufVars == <<per_chat_buffers, timers, buffers_lock, appends, downloads>>
sendVars == <<send, batches, attempts, sleeps, email_log, fallback_calls, sent_msgs,
             message_log>>
\* the configuration read from the environment at lines 31-43
envVars == <<creds, SENDGRID_API_KEY>>
relayVars == <<relay_msgs, relay_pc, relay_attachments, email_status, relay_smtp,
              relay_email_log, relay_message_log, relay_replies, relay_raised>>
\* the state of Telebot_Original_V1.py
bufferedVars == <<now, envVars, dedupVars, bufVars, sendVars>>
vars == <<bufferedVars, relayVars>>

\* threading.Lock(): the value of an unlocked lock
Free == 0

\* ------------------------------------------------------------ helpers
Min(S) == CHOOSE x \in S : \A y \in S : x <= y

RECURSIVE Join(_, _)
\* sep.join(seq)
Join(sep, seq) ==
  IF seq = <<>> THEN ""
  ELSE IF Len(seq) = 1 THEN seq[1]
  ELSE seq[1] \o sep \o Join(sep, Tail(seq))

\* f without key k (del d[k])
Without(f, k) == [x \in DOMAIN f \ {k} |-> f[x]]

\* ------------------------------------------------------------ updates
\* The update delivered as event e: the message fields handle_message reads.
\* photo/document/video/audio: "none" (absent), "ok" (download works),
\* "fail" (get_file / download_to_drive raises).
Msg(e) ==
  CASE e = 1 -> [text |-> "a", caption |-> "", photo |-> "none", document |-> "none",
                 video |-> "none", audio |-> "none", username |-> "ann", first_name |-> "Ann"]
    [] e = 2 -> [text |-> "b", caption |-> "", photo |-> "ok", document |-> "none",
                 video |-> "fail", audio |-> "ok", username |-> "", first_name |-> "Bob"]
    [] e = 3 -> [text |-> "", caption |-> "c", photo |-> "none", document |-> "ok",
                 video |-> "fail", audio |-> "ok", username |-> "cy", first_name |-> ""]
    [] e = 4 -> [text |-> "", caption |-> "", photo |-> "fail", document |-> "ok",
                 video |-> "none", audio |-> "none", username |-> "ann", first_name |-> "Ann"]
    [] OTHER -> [text |-> "a", caption |-> "", photo |-> "none", document |-> "ok",
                 video |-> "ok", audio |-> "none", username |-> "ann", first_name |-> "Ann"]

\* text = update.message.text or update.message.caption or "(tidak ada teks)"
TextOf(m) ==
  IF m.text # "" THEN m.text
  ELSE IF m.caption # "" THEN m.caption
  ELSE "(tidak ada teks)"

MediaKinds == <<"photo", "document", "video", "audio">>

MediaExt(kind) ==
  CASE kind = "photo" -> ".jpg"
    [] kind = "document" -> ""
    [] kind = "video" -> ".mp4"
    [] kind = "audio" -> ".ogg"

\* path = f"downloads/{...}" of one medium of event e
MediaPath(kind, e) == "downloads/" \o kind \o ToString(e) \o MediaExt(kind)

RECURSIVE SaveFrom(_, _, _)
\* The try block of handle_message from medium number i on: each present
\* medium is downloaded and its path appended; the first download that raises
\* leaves the block, so the media after it are never tried.
SaveFrom(m, e, i) ==
  IF i > Len(MediaKinds) THEN <<>>
  ELSE LET kind == MediaKinds[i] IN
       IF m[kind] = "fail" THEN <<>>
       ELSE IF m[kind] = "ok" THEN <<MediaPath(kind, e)>> \o SaveFrom(m, e, i + 1)
       ELSE SaveFrom(m, e, i + 1)

\* attachments as they stand when handle_message reaches line 238
SavedAttachments(e) == SaveFrom(Msg(e), e, 1)

\* user.username or "-"
OrDash(s) == IF s # "" THEN s ELSE "-"

\* body of flush_chat_buffer
Body(first_name, username, texts) ==
  "Dari: " \o first_name \o " (@" \o username \o ")\n\nPesan gabungan:\n\n"
    \o Join("\n\n---\n\n", IF texts # <<>> THEN texts ELSE <<"(kosong)">>)

\* ------------------------------------------------------------ initial state
IdleSend == [active |-> FALSE, attempt |-> 0, done |-> FALSE, ok |-> FALSE]

\* Telebot.py before any message
RelayIdle ==
  /\ relay_msgs = <<>>
  /\ relay_pc = "idle"
  /\ relay_attachments = <<>>
  /\ email_status = ""
  /\ relay_smtp = <<>>
  /\ relay_email_log = <<>>
  /\ relay_message_log = <<>>
  /\ relay_replies = <<>>
  /\ relay_raised = {}

\* no mail was ever handed to send_email
NothingSent ==
  /\ send = IdleSend
  /\ batches = <<>>
  /\ attempts = <<>>
  /\ sleeps = <<>>
  /\ email_log = <<>>
  /\ fallback_calls = <<>>
  /\ sent_msgs = <<>>
  /\ message_log = <<>>

\* the module globals of lines 129-135 after import, any environment
Init ==
  /\ now = 0
  /\ creds \in BOOLEAN
  /\ SENDGRID_API_KEY \in BOOLEAN
  /\ downloads = {}
  /\ PROCESSED_UPDATES = <<>>
  /\ processed_lock = Free
  /\ hq = <<>>
  /\ hpc = <<>>
  /\ per_chat_buffers = <<>>
  /\ timers = <<>>
  /\ buffers_lock = <<>>
  /\ appends = <<>>
  /\ NothingSent
  /\ RelayIdle

\* ------------------------------------------------------------ time
\* timers whose callback the loop runs now
Due == {k \in 1..Len(timers) : timers[k].state = "armed" /\ timers[k].when <= now}

\* the loop thread is inside a blocking call that cannot return
LoopBlocked == \E j \in 1..Len(hpc) : hpc[j] = "blocked"

\* a callback or a task is ready to run without waiting for I/O (the handler
\* of a submitted update, a timer that is due, a task that was created, a
\* waiting task the lock was released to, the return of the executor from
\* send_email_smtp): the loop runs it before any time passes, unless its
\* thread is blocked
Runnable ==
  \/ ~LoopBlocked /\ \E h \in 1..Len(hpc) : hpc[h] = "queued"
  \/ Due # {}
  \/ \E k \in 1..Len(timers) : timers[k].state = "fired"
  \/ /\ buffers_lock # <<>>
     /\ timers[Head(buffers_lock)].state = "wait"
  \/ send.active /\ send.done

NextGrid == ((now \div ArrivalStep) + 1) * ArrivalStep

NextTime ==
  Min({NextGrid} \cup {timers[k].when : k \in {j \in 1..Len(timers) :
                          timers[j].state = "armed" /\ timers[j].when > now}})

\* time passes, up to the next deadline or multiple of ArrivalStep
Tick ==
  /\ ~Runnable
  /\ NextTime <= MaxTime
  /\ now' = NextTime
  /\ UNCHANGED <<envVars, relayVars, dedupVars, bufVars, sendVars>>

\* ------------------------------------------------------------ handle_message, lines 246-271
\* buf["timer_handle"].cancel(): a handle that has not run yet will not run;
\* cancelling one whose callback already ran changes nothing
CancelTimer(ts, k) ==
  IF k # 0 /\ ts[k].state = "armed" THEN [ts EXCEPT ![k].state = "cancelled"] ELSE ts

\* variant of Appended: every append stores its own sender in the buffer
AppendedRefreshesSender(bufs, c, e) ==
  IF c \notin DOMAIN bufs
    THEN [texts |-> <<TextOf(Msg(e))>>,
          attachments |-> SavedAttachments(e),
          username |-> OrDash(Msg(e).username),
          first_name |-> OrDash(Msg(e).first_name),
          timer_handle |-> 0]
    ELSE [bufs[c] EXCEPT !.texts = Append(@, TextOf(Msg(e))),
                         !.attachments = @ \o SavedAttachments(e),
                         !.username = OrDash(Msg(e).username),
                         !.first_name = OrDash(Msg(e).first_name)]

\* the buffer after lines 247-259, before the timer is touched
Appended(bufs, c, e) ==
  IF c \notin DOMAIN bufs
    THEN [texts |-> <<TextOf(Msg(e))>>,
          attachments |-> SavedAttachments(e),
          username |-> OrDash(Msg(e).username),
          first_name |-> OrDash(Msg(e).first_name),
          timer_handle |-> 0]
    ELSE [bufs[c] EXCEPT !.texts = Append(@, TextOf(Msg(e))),
                         !.attachments = @ \o SavedAttachments(e)]

\* buffers, timers and files before any append
NoAppends == [bufs |-> <<>>, timers |-> <<>>, appends |-> <<>>, downloads |-> {}]

\* Lines 246-271 as a function of the state st they find and of the event
\* a.e of chat a.chat that reaches them at time a.at with the attachments of
\* lines 207-236: they run without suspension once the lock is held: append to
\* the chat's buffer (creating it if absent), cancel the buffer's timer, arm a
\* new one DEBOUNCE_INTERVAL ahead.
AppendStep(st, a) ==
  LET buf == Appended(st.bufs, a.chat, a.e)
      cancelled == CancelTimer(st.timers, buf.timer_handle)
      handle == Len(st.timers) + 1
      saved == SavedAttachments(a.e)
  IN [bufs |-> (a.chat :> [buf EXCEPT !.timer_handle = handle]) @@ st.bufs,
      timers |-> Append(cancelled, [chat |-> a.chat, when |-> a.at + DEBOUNCE_INTERVAL,
                                    state |-> "armed"]),
      appends |-> Append(st.appends, a),
      downloads |-> st.downloads \cup {saved[i] : i \in 1..Len(saved)}]

RECURSIVE AfterAppends(_)
\* the state after the appends of run, made in order
AfterAppends(run) ==
  IF run = <<>> THEN NoAppends
  ELSE AppendStep(AfterAppends(SubSeq(run, 1, Len(run) - 1)), run[Len(run)])

\* the times at which an append of a run is made
Instants == {t \in 0..(MaxTime - DEBOUNCE_INTERVAL) : t % ArrivalStep = 0}

\* The runs of appends that build the buffers flush_chat_buffer is applied to:
\* events 1, 2, ... in order, at most MaxOther of them outside chat 1, two
\* appends to a chat less than DEBOUNCE_INTERVAL apart (no timer of the chat
\* ran in between), and no timer overdue when the last append is made.
AppendRuns ==
  {run \in UNION {[1..n -> [e : Events, chat : Chats, at : Instants]] : n \in 1..MaxEvents} :
     /\ \A i \in DOMAIN run : run[i].e = i
     /\ \A i \in DOMAIN run : i > 1 => run[i - 1].at <= run[i].at
     /\ Cardinality({i \in DOMAIN run : run[i].chat # 1}) <= MaxOther
     /\ \A i, j \in DOMAIN run :
          (i < j /\ run[i].chat = run[j].chat
             /\ \A x \in DOMAIN run : (i < x /\ x < j) => run[x].chat # run[i].chat) =>
            run[j].at - run[i].at < DEBOUNCE_INTERVAL
     /\ \A i \in DOMAIN run :
          (\A x \in DOMAIN run : x > i => run[x].chat # run[i].chat) =>
            run[i].at + DEBOUNCE_INTERVAL >= run[Len(run)].at}

\* the calls of flush_chat_buffer made on their own, by no timer: the chat of
\* each, in the order their tasks were created
FlushCalls == UNION {[1..n -> Chats] : n \in 0..MaxFlushCalls}

\* flush_chat_buffer(calls[i]) as a task created and not yet started
FlushTask(calls, t) == [i \in 1..Len(calls) |-> [chat |-> calls[i], when |-> t, state |-> "fired"]]

\* flush_chat_buffer and send_email_smtp are applied to the buffers, timers
\* and files that a run of appends leaves, at the time of its last append, in
\* any environment: by the timers the appends armed and by the tasks of
\* direct calls. (Under Spec no handler reaches line 246: these states are
\* what lines 246-271 compute, not states Spec reaches.)
InitFlush ==
  /\ creds \in BOOLEAN
  /\ SENDGRID_API_KEY \in BOOLEAN
  /\ PROCESSED_UPDATES = <<>>
  /\ processed_lock = Free
  /\ hq = <<>>
  /\ hpc = <<>>
  /\ buffers_lock = <<>>
  /\ NothingSent
  /\ RelayIdle
  /\ \E run \in AppendRuns, calls \in FlushCalls :
       LET st == AfterAppends(run) IN
       /\ now = run[Len(run)].at
       /\ per_chat_buffers = st.bufs
       /\ timers = st.timers \o FlushTask(calls, now)
       /\ appends = st.appends
       /\ downloads = st.downloads

\* ------------------------------------------------------------ the debounce timer
\* The call_later callback of handle k runs: asyncio.create_task(flush_chat_buffer(cid))
TimerFire(k) ==
  /\ k \in Due
  /\ timers' = [timers EXCEPT ![k].state = "fired"]
  /\ UNCHANGED <<now, envVars, relayVars, dedupVars, per_chat_buffers, buffers_lock,
                 appends, downloads, sendVars>>

\* ------------------------------------------------------------ flush_chat_buffer
\* what flush_chat_buffer hands to send_email for the buffer of chat c
\* (subject, body, attachments), with the task that built it, the time and the
\* number of appends made so far
Batch(c, buf, k) ==
  [chat |-> c, task |-> k, at |-> now, n |-> Len(appends),
   subject |-> <<now, c>>,
   body |-> Body(buf.first_name, buf.username, buf.texts),
   texts |-> buf.texts,
   attachments |-> buf.attachments]

\* variant of FlushBegin without the "if not buf: return" of lines 158-159: an
\* absent buffer is sent as an empty batch
FlushBeginNoCheck(k, lock) ==
  /\ LET c == timers[k].chat IN
     IF c \notin DOMAIN per_chat_buffers
       THEN /\ timers' = [timers EXCEPT ![k].state = "done"]
            /\ buffers_lock' = Tail(lock)
            /\ batches' = Append(batches, [chat |-> c, task |-> k, at |-> now,
                              n |-> Len(appends), subject |-> <<now, c>>,
                              body |-> Body("-", "-", <<>>), texts |-> <<>>,
                              attachments |-> <<>>])
            /\ UNCHANGED send
       ELSE /\ timers' = [timers EXCEPT ![k].state = "flushing"]
            /\ batches' = Append(batches, Batch(c, per_chat_buffers[c], k))
            /\ send' = [IdleSend EXCEPT !.active = TRUE]
            /\ buffers_lock' = lock
  /\ UNCHANGED <<now, envVars, relayVars, dedupVars, per_chat_buffers, appends, downloads,
                 attempts, sleeps, email_log, fallback_calls, sent_msgs, message_log>>

\* Lines 157-168, run by task k with the lock held (k is the head of lock):
\* no buffer, return, which releases the lock; else build subject and body and
\* call send_email, whose result the task awaits
FlushBegin(k, lock) ==
  /\ LET c == timers[k].chat IN
     IF c \notin DOMAIN per_chat_buffers
       THEN /\ timers' = [timers EXCEPT ![k].state = "done"]
            /\ buffers_lock' = Tail(lock)
            /\ UNCHANGED <<send, batches>>
       ELSE /\ timers' = [timers EXCEPT ![k].state = "flushing"]
            /\ batches' = Append(batches, Batch(c, per_chat_buffers[c], k))
            /\ send' = [IdleSend EXCEPT !.active = TRUE]
            /\ buffers_lock' = lock
  /\ UNCHANGED <<now, envVars, relayVars, dedupVars, per_chat_buffers, appends, downloads,
                 attempts, sleeps, email_log, fallback_calls, sent_msgs, message_log>>

\* The flush task k (of timer handle k, or of a direct call) starts. Line 156:
\* a free lock is taken at once and the task goes on to line 157; else the
\* task queues for the lock and suspends.
FlushAcquire(k) ==
  /\ k \in 1..Len(timers) /\ timers[k].state = "fired"
  /\ IF buffers_lock = <<>>
       THEN FlushBegin(k, <<k>>)
       ELSE /\ timers' = [timers EXCEPT ![k].state = "wait"]
            /\ buffers_lock' = Append(buffers_lock, k)
            /\ UNCHANGED <<now, envVars, relayVars, dedupVars, per_chat_buffers, appends,
                           downloads, sendVars>>

\* The lock was released to task k, the first of the queue: it resumes at line 157
FlushResume(k) ==
  /\ buffers_lock # <<>> /\ Head(buffers_lock) = k
  /\ timers[k].state = "wait"
  /\ FlushBegin(k, buffers_lock)

\* ------------------------------------------------------------ send_email_smtp
\* for attempt in range(1, max_retries + 1)
RetryRange == 1..MAX_RETRIES

\* variant of MoreRetries that gives up one attempt early
MoreRetriesShort(attempt) == attempt < MAX_RETRIES - 1

\* if attempt < max_retries: sleep and try again; else log the failure and return False
MoreRetries(attempt) == attempt < MAX_RETRIES

\* variant of Backoff that starts at 2 ** 0
BackoffFromOne(attempt) == 2 ^ (attempt - 1)

\* time.sleep(2 ** attempt)
Backoff(attempt) == 2 ^ attempt

\* One pass of the body of send_email_smtp, in the executor thread, for the
\* batch being sent: the credentials check on entry, then one attempt of the
\* retry loop, whose SMTP exchange works (ok) or raises.
SendEmailSmtp(ok) ==
  /\ send.active /\ ~send.done
  /\ LET b == Len(batches)
         attempt == send.attempt + 1
     IN IF ~creds \/ attempt \notin RetryRange
          THEN \* "Creds not set": return False; a loop that ran out returns None
               /\ send' = [send EXCEPT !.done = TRUE, !.ok = FALSE]
               /\ UNCHANGED <<attempts, sleeps, email_log>>
          ELSE /\ attempts' = Append(attempts, [batch |-> b, attempt |-> attempt, ok |-> ok])
               /\ IF ok
                    THEN /\ email_log' = Append(email_log, [batch |-> b, status |-> "Terkirim"])
                         /\ send' = [send EXCEPT !.attempt = attempt, !.done = TRUE, !.ok = TRUE]
                         /\ UNCHANGED sleeps
                    ELSE IF MoreRetries(attempt)
                      THEN /\ sleeps' = Append(sleeps, [batch |-> b, secs |-> Backoff(attempt)])
                           /\ send' = [send EXCEPT !.attempt = attempt]
                           /\ UNCHANGED email_log
                      ELSE /\ email_log' = Append(email_log, [batch |-> b, status |-> "Gagal"])
                           /\ send' = [send EXCEPT !.attempt = attempt, !.done = TRUE, !.ok = FALSE]
                           /\ UNCHANGED sleeps
  /\ UNCHANGED <<now, envVars, relayVars, dedupVars, bufVars, batches, fallback_calls, sent_msgs,
                 message_log>>

\* ------------------------------------------------------------ flush_chat_buffer, lines 169-187
\* Lines 169-174: send_email has returned success; the task calls
\* bot.send_message with the text chosen by it and awaits the call, still
\* holding the lock
FlushNotify(k) ==
  /\ k \in 1..Len(timers) /\ timers[k].state = "flushing"
  /\ send.active /\ send.done
  /\ sent_msgs' = Append(sent_msgs, [chat |-> timers[k].chat, batch |-> Len(batches),
                                     success |-> send.ok, state |-> "pending"])
  /\ timers' = [timers EXCEPT ![k].state = "notifying"]
  /\ send' = IdleSend
  /\ UNCHANGED <<now, envVars, relayVars, dedupVars, per_chat_buffers, buffers_lock, appends,
                 downloads, batches, attempts, sleeps, email_log, fallback_calls, message_log>>

\* the call of bot.send_message that is awaited has returned or raised
Notified(msgs, delivered) ==
  [msgs EXCEPT ![Len(msgs)].state = IF delivered THEN "sent" ELSE "raised"]

\* the row of message_log.csv for the buffer buf of chat c
LogRow(c, buf) ==
  [chat |-> c, username |-> buf.username,
   texts |-> Join(" || ", buf.texts),
   attachments |-> Join(", ", buf.attachments)]

\* variant of FlushFinish without the del of line 187
FlushFinishKeepsBuffer(k, delivered) ==
  /\ k \in 1..Len(timers) /\ timers[k].state = "notifying"
  /\ LET c == timers[k].chat IN
     /\ sent_msgs' = Notified(sent_msgs, delivered)
     /\ message_log' = Append(message_log, LogRow(c, per_chat_buffers[c]))
     /\ per_chat_buffers' = per_chat_buffers
  /\ timers' = [timers EXCEPT ![k].state = "done"]
  /\ buffers_lock' = Tail(buffers_lock)
  /\ UNCHANGED <<now, envVars, relayVars, dedupVars, appends, downloads, send, batches,
                 attempts, sleeps, email_log, fallback_calls>>

\* variant of FlushFinish in which an exception of bot.send_message is not
\* caught: it leaves flush_chat_buffer, releasing the lock, before the log row
\* and the del
FlushFinishNotifyRaises(k, delivered) ==
  /\ k \in 1..Len(timers) /\ timers[k].state = "notifying"
  /\ LET c == timers[k].chat IN
     /\ sent_msgs' = Notified(sent_msgs, delivered)
     /\ message_log' =
          IF delivered THEN Append(message_log, LogRow(c, per_chat_buffers[c]))
          ELSE message_log
     /\ per_chat_buffers' =
          IF delivered THEN Without(per_chat_buffers, c) ELSE per_chat_buffers
  /\ timers' = [timers EXCEPT ![k].state = "done"]
  /\ buffers_lock' = Tail(buffers_lock)
  /\ UNCHANGED <<now, envVars, relayVars, dedupVars, appends, downloads, send, batches,
                 attempts, sleeps, email_log, fallback_calls>>

\* variant of FlushFinish that removes the files of the buffer it drops,
\* whatever send_email returned
FlushFinishRemovesFiles(k, delivered) ==
  /\ k \in 1..Len(timers) /\ timers[k].state = "notifying"
  /\ LET c == timers[k].chat IN
     /\ sent_msgs' = Notified(sent_msgs, delivered)
     /\ message_log' = Append(message_log, LogRow(c, per_chat_buffers[c]))
     /\ downloads' = downloads \ {per_chat_buffers[c].attachments[i] :
                                    i \in 1..Len(per_chat_buffers[c].attachments)}
     /\ per_chat_buffers' = Without(per_chat_buffers, c)
  /\ timers' = [timers EXCEPT ![k].state = "done"]
  /\ buffers_lock' = Tail(buffers_lock)
  /\ UNCHANGED <<now, envVars, relayVars, dedupVars, appends, send, batches,
                 attempts, sleeps, email_log, fallback_calls>>

\* Lines 172-187, from the return of bot.send_message on: the call returned
\* (delivered) or raised, and the exception was caught and printed; a row is
\* added to message_log.csv, the buffer is deleted and the lock released.
FlushFinish(k, delivered) ==
  /\ k \in 1..Len(timers) /\ timers[k].state = "notifying"
  /\ LET c == timers[k].chat IN
     /\ sent_msgs' = Notified(sent_msgs, delivered)
     /\ message_log' = Append(message_log, LogRow(c, per_chat_buffers[c]))
     /\ per_chat_buffers' = Without(per_chat_buffers, c)
  /\ timers' = [timers EXCEPT ![k].state = "done"]
  /\ buffers_lock' = Tail(buffers_lock)
  /\ UNCHANGED <<now, envVars, relayVars, dedupVars, appends, downloads, send, batches,
                 attempts, sleeps, email_log, fallback_calls>>

NextFlush ==
  \/ \E k \in 1..Len(timers) : TimerFire(k)
  \/ \E k \in 1..Len(timers) : FlushAcquire(k)
  \/ \E k \in 1..Len(timers) : FlushResume(k)
  \/ \E ok \in BOOLEAN : SendEmailSmtp(ok)
  \/ \E k \in 1..Len(timers) : FlushNotify(k)
  \/ \E k \in 1..Len(timers), delivered \in BOOLEAN : FlushFinish(k, delivered)
  \/ Tick

SpecFlush == InitFlush /\ [][NextFlush]_vars

\* ------------------------------------------------------------ handle_message, lines 193-201
\* webhook(): an update with id uid is submitted to the loop
\* (run_coroutine_threadsafe); the webhook thread waits at most a second for it.
\* The h-th update submitted carries the message Msg(h) of chat 1.
Webhook(uid) ==
  /\ Len(hq) < MaxHandlers
  /\ hq' = Append(hq, [uid |-> uid, at |-> now])
  /\ hpc' = Append(hpc, "queued")
  /\ UNCHANGED <<now, envVars, relayVars, PROCESSED_UPDATES, processed_lock, bufVars, sendVars>>

\* processed_lock.acquire() for a lock in state lock: threading.Lock is not
\* reentrant, the call returns only when the lock is free, whoever holds it
LockAcquirable(lock) == lock = Free

\* to_del / del of cleanup_processed: the records older than PROCESSED_TTL go
Purged(map, t) ==
  [k \in {x \in DOMAIN map : ~(t - map[x] > PROCESSED_TTL)} |-> map[k]]

\* handle_message for the h-th submitted update, run by the loop thread from
\* its first line up to the point where it suspends, returns or blocks:
\* "with processed_lock:" takes the lock, then cleanup_processed() runs its own
\* "with processed_lock:" on the lock the handler holds. A handler that got
\* out of the with block would go on to line 203.
HandleMessageDedup(h) ==
  /\ h \in 1..Len(hq) /\ hpc[h] = "queued"
  /\ \A j \in 1..(h - 1) : hpc[j] # "queued"
  /\ ~LoopBlocked
  /\ LockAcquirable(processed_lock)
  /\ LET uid == hq[h].uid
         held == h
     IN IF ~LockAcquirable(held)
          THEN \* cleanup_processed waits for the lock its caller holds
               /\ processed_lock' = held
               /\ hpc' = [hpc EXCEPT ![h] = "blocked"]
               /\ UNCHANGED PROCESSED_UPDATES
          ELSE LET map == Purged(PROCESSED_UPDATES, now) IN
               /\ processed_lock' = Free
               /\ IF uid \in DOMAIN map
                    THEN /\ PROCESSED_UPDATES' = map
                         /\ hpc' = [hpc EXCEPT ![h] = "duplicate"]
                    ELSE /\ PROCESSED_UPDATES' = (uid :> now) @@ map
                         /\ hpc' = [hpc EXCEPT ![h] = "accepted"]
  /\ UNCHANGED <<now, envVars, relayVars, hq, bufVars, sendVars>>

\* ------------------------------------------------------------ specification
\* Telebot_Original_V1.py: updates arrive, the loop runs their handlers, time
\* passes. No action stands for lines 203-271 or for flush_chat_buffer: they
\* are entered only by a handler that leaves line 197, and none does.
Next ==
  \/ \E uid \in Uids : Webhook(uid)
  \/ \E h \in Handlers : HandleMessageDedup(h)
  \/ Tick

Spec == Init /\ [][Next]_vars

\* ------------------------------------------------------------ Telebot.py
\* The messages handle_message of Telebot.py may be called with: a text or
\* none, and a photo, a document and a video that are absent ("none"), whose
\* download works ("ok") or raises ("fail").
RelayInputs ==
  [text : {"", "a"}, photo : {"none", "ok", "fail"}, document : {"none", "ok", "fail"},
   video : {"none", "ok", "fail"}, username : {""}, first_name : {"Ann"}]

\* what the SMTP exchange of send_email does: it works, or raises e
SmtpOutcomes == {[ok |-> TRUE, e |-> ""], [ok |-> FALSE, e |-> "auth"],
                 [ok |-> FALSE, e |-> "Terkirim"]}

RelayKinds == <<"photo", "document", "video">>

\* lines 111-135: a medium that raises while being downloaded
RelayDownloadRaises(m) == \E i \in 1..Len(RelayKinds) : m[RelayKinds[i]] = "fail"

RECURSIVE RelaySaved(_, _, _)
\* lines 111-135 from medium number i on, when no download raises
RelaySaved(m, n, i) ==
  IF i > Len(RelayKinds) THEN <<>>
  ELSE IF m[RelayKinds[i]] = "ok"
    THEN <<"downloads/" \o RelayKinds[i] \o ToString(n)>> \o RelaySaved(m, n, i + 1)
    ELSE RelaySaved(m, n, i + 1)

\* body = f"Dari: {user.first_name or 'User'} (@{user.username or '-'})\nPesan:\n{text}"
RelayBody(m) ==
  "Dari: " \o (IF m.first_name # "" THEN m.first_name ELSE "User")
    \o " (@" \o OrDash(m.username) \o ")\nPesan:\n" \o m.text

\* status = "Terkirim", or f"Gagal: {e}" when the exchange raised e
StatusOf(o) == IF o.ok THEN "Terkirim" ELSE "Gagal: " \o o.e

\* Lines 106-151: handle_message is called with message m. The media are
\* downloaded outside any try block: a download that raises ends the handler
\* by that exception. Otherwise the message is logged and subject and body
\* are built.
RelayHandleMessage(m) ==
  /\ creds
  /\ relay_pc = "idle"
  /\ Len(relay_msgs) < MaxRelayMsgs
  /\ relay_msgs' = Append(relay_msgs, m)
  /\ IF RelayDownloadRaises(m)
       THEN /\ relay_raised' = relay_raised \cup {Len(relay_msgs) + 1}
            /\ UNCHANGED <<relay_pc, relay_attachments, relay_message_log>>
       ELSE /\ relay_attachments' = RelaySaved(m, Len(relay_msgs) + 1, 1)
            /\ relay_message_log' = Append(relay_message_log,
                  [msg |-> Len(relay_msgs) + 1, username |-> OrDash(m.username),
                   message |-> m.text])
            /\ relay_pc' = "send"
            /\ UNCHANGED relay_raised
  /\ UNCHANGED <<bufferedVars, email_status, relay_smtp, relay_email_log, relay_replies>>

\* Lines 69-99 and 154: send_email makes one SMTP exchange, which works or
\* raises; the exception is caught, a row is added to email_log.csv and the
\* status is returned.
RelaySendEmail(o) ==
  /\ relay_pc = "send"
  /\ LET n == Len(relay_msgs) IN
     /\ relay_smtp' = Append(relay_smtp, [msg |-> n, ok |-> o.ok])
     /\ relay_email_log' = Append(relay_email_log,
           [msg |-> n, body |-> RelayBody(relay_msgs[n]), status |-> StatusOf(o)])
  /\ email_status' = StatusOf(o)
  /\ relay_pc' = "reply"
  /\ UNCHANGED <<bufferedVars, relay_msgs, relay_attachments, relay_message_log,
                 relay_replies, relay_raised>>

\* Lines 157-160: the reply to the user, chosen by the returned status; a
\* reply_text that raises ends the handler by that exception
RelayReply(works) ==
  /\ relay_pc = "reply"
  /\ relay_replies' = Append(relay_replies,
        [msg |-> Len(relay_msgs), success |-> (email_status = "Terkirim"),
         status |-> email_status])
  /\ relay_raised' = IF works THEN relay_raised ELSE relay_raised \cup {Len(relay_msgs)}
  /\ relay_pc' = "idle"
  /\ UNCHANGED <<bufferedVars, relay_msgs, relay_attachments, email_status, relay_smtp,
                 relay_email_log, relay_message_log>>

NextRelay ==
  \/ \E m \in RelayInputs : RelayHandleMessage(m)
  \/ \E o \in SmtpOutcomes : RelaySendEmail(o)
  \/ \E works \in BOOLEAN : RelayReply(works)

SpecRelay == Init /\ [][NextRelay]_vars

\* ------------------------------------------------------------ observations
\* indices of the appends made to chat c
AppendsOf(c) == {p \in 1..Len(appends) : appends[p].chat = c}

\* indices of the batches built for chat c
BatchesOf(c) == {j \in 1..Len(batches) : batches[j].chat = c}

\* a flush of chat c has built its batch and not yet removed the buffer
Flushing(c) ==
  \E k \in 1..Len(timers) :
    timers[k].chat = c /\ timers[k].state \in {"flushing", "notifying"}

\* the time of the first append held by the buffer of chat c
CreatedAt(c) ==
  LET S == AppendsOf(c)
      m == Len(per_chat_buffers[c].texts)
  IN appends[CHOOSE p \in S : Cardinality({q \in S : q >= p}) = m].at

\* the SMTP attempts made for batch b, in order
AttemptsOf(b) == SelectSeq(attempts, LAMBDA a : a.batch = b)

\* send_email has returned for batch b
Returned(b) ==
  \/ \E i \in 1..Len(sent_msgs) : sent_msgs[i].batch = b
  \/ b = Len(batches) /\ send.active /\ send.done

\* what send_email returned for batch b
Delivered(b) ==
  IF \E i \in 1..Len(sent_msgs) : sent_msgs[i].batch = b
    THEN LET i == CHOOSE x \in 1..Len(sent_msgs) : sent_msgs[x].batch = b IN sent_msgs[i].success
    ELSE send.ok

\* the calls of the HTTP mail API made for batch b
FallbackCallsOf(b) == SelectSeq(fallback_calls, LAMBDA f : f.batch = b)

\* every SMTP attempt of the retry loop was made for batch b and raised
PrimaryExhausted(b) ==
  /\ Len(AttemptsOf(b)) = MAX_RETRIES
  /\ \A i \in 1..Len(AttemptsOf(b)) : ~AttemptsOf(b)[i].ok

\* flush_chat_buffer has run to its end for batch b
Finished(b) == timers[batches[b].task].state = "done"

\* the flush of batch b awaits its call of bot.send_message
Notifying(b) == timers[batches[b].task].state = "notifying"

\* the outcome messages sent to a chat for batch b
NotificationsOf(b) == SelectSeq(sent_msgs, LAMBDA m : m.batch = b)

\* the attachment paths of batch b
FilesOf(b) == {batches[b].attachments[i] : i \in 1..Len(batches[b].attachments)}

\* the paths of the media of event e whose download works
Saveable(e) ==
  {MediaPath(MediaKinds[i], e) : i \in {x \in 1..Len(MediaKinds) : Msg(e)[MediaKinds[x]] = "ok"}}

\* the attachment paths held by the buffer of chat c
BufferFiles(c) ==
  IF c \in DOMAIN per_chat_buffers
    THEN {per_chat_buffers[c].attachments[i] : i \in 1..Len(per_chat_buffers[c].attachments)}
    ELSE {}

\* the texts held by the buffer of chat c
BufferTexts(c) ==
  IF c \in DOMAIN per_chat_buffers
    THEN {per_chat_buffers[c].texts[i] : i \in 1..Len(per_chat_buffers[c].texts)}
    ELSE {}

\* the chat of a flush task
ChatOf(k) == timers[k].chat

\* the lock is held by a flush that is between its call of send_email and its del
DeliveryInProgress ==
  /\ buffers_lock # <<>>
  /\ timers[Head(buffers_lock)].state \in {"flushing", "notifying"}

\* the sleeps of send_email_smtp made for batch b, in order
SleepsOf(b) == SelectSeq(sleeps, LAMBDA z : z.batch = b)

\* their lengths
WaitsOf(b) == [i \in 1..Len(SleepsOf(b)) |-> SleepsOf(b)[i].secs]

\* the rows of email_log.csv written for batch b
LogOf(b) == SelectSeq(email_log, LAMBDA r : r.batch = b)

\* the append that created the buffer chat c has now
CreatingAppend(c) ==
  CHOOSE p \in AppendsOf(c) :
    Cardinality({q \in AppendsOf(c) : q >= p}) = Len(per_chat_buffers[c].texts)

\* the last append made to chat c
LastAppend(c) == CHOOSE p \in AppendsOf(c) : \A q \in AppendsOf(c) : q <= p

\* the updates submitted so far have distinct ids and each came less than
\* DEBOUNCE_INTERVAL after the one before
Burst ==
  /\ hq # <<>>
  /\ \A g, h \in 1..Len(hq) : g # h => hq[g].uid # hq[h].uid
  /\ \A h \in 2..Len(hq) : hq[h].at - hq[h - 1].at < DEBOUNCE_INTERVAL

\* the texts of the updates submitted so far, in order
TextsSubmitted == [h \in 1..Len(hq) |-> TextOf(Msg(h))]

\* ------------------------------------------------------------ claims
\* C1: between two batches built for the same chat there is an append to that
\* chat: flush triggers that follow each other with no append in between build
\* at most one batch from the buffer.
C1_AtMostOneBatchPerBuffer ==
  \A i, j \in 1..Len(batches) :
    (i < j /\ batches[i].chat = batches[j].chat) =>
      \E p \in AppendsOf(batches[i].chat) : batches[i].n < p /\ p <= batches[j].n

\* C1 witness: two flush tasks of the same chat, the timer's and a direct
\* call, have run to their end on one buffer: one sent it as batch j, the
\* other built nothing.
C1_Witness ==
  \E j \in 1..Len(batches), k2 \in 1..Len(timers) :
    /\ timers[k2].chat = batches[j].chat
    /\ k2 # batches[j].task
    /\ Finished(j)
    /\ timers[k2].state = "done"
    /\ \A i \in 1..Len(batches) : batches[i].task # k2

\* C2 (as claimed): once more than DEBOUNCE_INTERVAL has passed since the last
\* of a burst of updates of a chat with distinct ids, exactly one batch has
\* been built, with all their texts in order.
C2_OneBatchPerBurst ==
  (Burst /\ now - hq[Len(hq)].at > DEBOUNCE_INTERVAL) =>
    /\ Len(batches) = 1
    /\ batches[1].chat = 1
    /\ batches[1].texts = TextsSubmitted

\* C4 (as claimed): no handler is ever stuck in the dedup step waiting for
\* processed_lock.
C4_DedupNeverBlocks == \A h \in 1..Len(hpc) : hpc[h] # "blocked"

\* C6 (as claimed): a batch is built DEBOUNCE_INTERVAL after the last update
\* of its chat and not before: with "a" submitted at 0 and "b" one
\* ArrivalStep later, and nothing else, the batch of both texts is built at
\* ArrivalStep + DEBOUNCE_INTERVAL.
C6_SilenceBeforeFlush ==
  /\ \A j \in 1..Len(batches) :
       \A h \in 1..Len(hq) : hq[h].at <= batches[j].at =>
         batches[j].at - hq[h].at >= DEBOUNCE_INTERVAL
  /\ ( /\ Len(hq) = 2 /\ hq[1].uid # hq[2].uid
       /\ hq[1].at = 0 /\ hq[2].at = ArrivalStep
       /\ now > ArrivalStep + DEBOUNCE_INTERVAL ) =>
       \E j \in 1..Len(batches) :
         /\ batches[j].at = ArrivalStep + DEBOUNCE_INTERVAL
         /\ batches[j].texts = <<"a", "b">>

\* C8 (as claimed): no buffer stays unflushed longer than the watchdog ceiling
\* (70) plus one watchdog period (30) after its first append.
C8_WatchdogFlushes ==
  \A c \in DOMAIN per_chat_buffers :
    ~Flushing(c) => now - CreatedAt(c) <= 70 + 30

\* C9: a flush that takes the lock (at once, or after waiting for it) and
\* finds no buffer for its chat changes nothing but its own task state and the
\* lock, which it releases: no batch, no SMTP attempt, no notification, no log
\* row, no change to any buffer, file or other timer.
C9_FlushWithoutBufferIsNoop ==
  [][\A k \in 1..Len(timers) :
       ( /\ \/ timers[k].state = "fired" /\ buffers_lock = <<>>
            \/ timers[k].state = "wait" /\ buffers_lock # <<>> /\ Head(buffers_lock) = k
         /\ timers[k].chat \notin DOMAIN per_chat_buffers
         /\ timers'[k].state \notin {"fired", "wait"} ) =>
       ( /\ UNCHANGED <<per_chat_buffers, sendVars, appends, downloads>>
         /\ Len(timers') = Len(timers)
         /\ \A x \in 1..Len(timers) : x # k => timers'[x] = timers[x]
         /\ timers'[k].state = "done"
         /\ buffers_lock' = (IF buffers_lock = <<>> THEN <<>> ELSE Tail(buffers_lock)) )]_vars

\* C9 witness: a flush task has ended without building a batch, for a chat
\* that never had a batch, while another chat has a buffer.
C9_Witness ==
  \E k \in 1..Len(timers) :
    /\ timers[k].state = "done"
    /\ BatchesOf(timers[k].chat) = {}
    /\ \E c \in DOMAIN per_chat_buffers : c # timers[k].chat

\* C10: the attempts made for a batch are numbered 1, 2, ... and are at most
\* MAX_RETRIES; only the last one can be a success; once send_email has
\* returned after an attempt, it returned true iff the last attempt succeeded,
\* and it returned false only after MAX_RETRIES failed attempts.
C10_AtMostMaxRetries ==
  \A b \in 1..Len(batches) :
    LET A == AttemptsOf(b) IN
    /\ Len(A) <= MAX_RETRIES
    /\ \A i \in 1..Len(A) : A[i].attempt = i /\ (A[i].ok => i = Len(A))
    /\ (Returned(b) /\ A # <<>>) =>
         /\ Delivered(b) <=> A[Len(A)].ok
         /\ ~Delivered(b) => Len(A) = MAX_RETRIES
    /\ (Returned(b) /\ A = <<>>) => ~Delivered(b)

\* C10 witness: a batch for which send_email returned false after three
\* failed attempts, and an earlier one that was delivered at a retry.
C10_Witness ==
  \E b, d \in 1..Len(batches) :
    /\ Returned(b) /\ ~Delivered(b) /\ Len(AttemptsOf(b)) = MAX_RETRIES
    /\ Returned(d) /\ Delivered(d) /\ Len(AttemptsOf(d)) > 1

\* C11 (as claimed): when SENDGRID_API_KEY is set and send_email has returned
\* for a batch whose MAX_RETRIES SMTP attempts all failed, the HTTP mail API
\* has been called exactly once for that batch.
C11_FallbackAttemptedOnce ==
  \A b \in 1..Len(batches) :
    (SENDGRID_API_KEY /\ Returned(b) /\ PrimaryExhausted(b)) => Len(FallbackCallsOf(b)) = 1

\* C12: when SENDGRID_API_KEY is not set and the MAX_RETRIES SMTP attempts of
\* a batch all failed, send_email returns false and every attachment file of
\* the batch is still in downloads/; once the flush has called
\* bot.send_message, exactly one outcome message, the failure text, was sent
\* to the batch's chat.
C12_FailureKeepsFiles ==
  \A b \in 1..Len(batches) :
    (~SENDGRID_API_KEY /\ PrimaryExhausted(b) /\ Returned(b)) =>
      /\ ~Delivered(b)
      /\ FilesOf(b) \subseteq downloads
      /\ (Notifying(b) \/ Finished(b)) =>
           /\ Len(NotificationsOf(b)) = 1
           /\ NotificationsOf(b)[1].chat = batches[b].chat
           /\ ~NotificationsOf(b)[1].success

\* C12 witness: the flush of a batch with an attachment has ended after three
\* failed SMTP attempts, with no SENDGRID_API_KEY.
C12_Witness ==
  \E b \in 1..Len(batches) :
    /\ ~SENDGRID_API_KEY /\ PrimaryExhausted(b) /\ Finished(b)
    /\ FilesOf(b) # {}

\* C13 (as claimed): once the flush of a delivered batch has ended, none of
\* the batch's attachment files is left in downloads/.
C13_DeliveredFilesDeleted ==
  \A b \in 1..Len(batches) :
    (Finished(b) /\ Delivered(b)) => FilesOf(b) \cap downloads = {}

\* C14 (as claimed): every append put the event's text in the chat's buffer
\* and armed a timer DEBOUNCE_INTERVAL ahead for its chat; and every medium of
\* an appended event whose download works is in the chat's buffer or in one of
\* the chat's batches, whether or not another medium of the event failed.
C14_OnlyFailedAttachmentDropped ==
  \A p \in 1..Len(appends) :
    /\ timers[p].chat = appends[p].chat
    /\ timers[p].when = appends[p].at + DEBOUNCE_INTERVAL
    /\ \/ TextOf(Msg(appends[p].e)) \in BufferTexts(appends[p].chat)
       \/ \E j \in BatchesOf(appends[p].chat) :
            \E i \in 1..Len(batches[j].texts) : batches[j].texts[i] = TextOf(Msg(appends[p].e))
    /\ \A f \in Saveable(appends[p].e) :
         \/ f \in BufferFiles(appends[p].chat)
         \/ \E j \in BatchesOf(appends[p].chat) : f \in FilesOf(j)

\* C15 (as claimed): while the batch of a chat is being delivered (SMTP
\* attempts, backoff sleeps, outcome message), no flush of another chat is
\* waiting for buffers_lock.
C15_OtherChatsNeverWait ==
  DeliveryInProgress =>
    \A i \in 2..Len(buffers_lock) : ChatOf(buffers_lock[i]) = ChatOf(Head(buffers_lock))

\* C16 (as claimed): every call of the dedup step ends with a decision and
\* leaves the id in PROCESSED_UPDATES with a first-seen time; the first call
\* for an id is accepted and, no record being old enough to be purged before
\* MaxTime, every later call for that id is a duplicate that leaves the
\* first-seen time as it was.
C16_DedupMapRecords ==
  \A h \in 1..Len(hpc) :
    hpc[h] # "queued" =>
      /\ hpc[h] \in {"accepted", "duplicate"}
      /\ hq[h].uid \in DOMAIN PROCESSED_UPDATES
      /\ PROCESSED_UPDATES[hq[h].uid] <= now
      /\ hpc[h] = "duplicate" <=> \E g \in 1..(h - 1) : hq[g].uid = hq[h].uid

\* C17 (as claimed): the i-th wait of a batch is 2^i, no wait follows a
\* successful attempt, and a batch whose primary attempts all failed has
\* waited 2, 4 and 8.
C17_BackoffTwoFourEight ==
  \A b \in 1..Len(batches) :
    LET A == AttemptsOf(b)
        S == SleepsOf(b)
    IN /\ \A i \in 1..Len(S) : S[i].secs = 2 ^ i
       /\ \A i \in 1..Len(A) : A[i].ok => Len(S) < i
       /\ PrimaryExhausted(b) => WaitsOf(b) = <<2, 4, 8>>

\* C17 (amended): a wait follows each failed attempt but the last of the
\* MAX_RETRIES, the wait after the i-th attempt being 2^i: 2 after the first
\* and 4 after the second; no wait follows the last attempt or a successful one.
C17_BackoffBetweenAttempts ==
  \A b \in 1..Len(batches) :
    LET A == AttemptsOf(b)
        S == SleepsOf(b)
    IN /\ Len(S) = Cardinality({i \in 1..Len(A) : ~A[i].ok /\ i < MAX_RETRIES})
       /\ \A i \in 1..Len(S) : S[i].secs = 2 ^ i /\ ~A[i].ok
       /\ PrimaryExhausted(b) => WaitsOf(b) = <<2, 4>>

\* C17 witness: a batch that was given up after waits of 2 and 4, and one
\* delivered at its second attempt after a single wait of 2.
C17_Witness ==
  \E b, d \in 1..Len(batches) :
    /\ Returned(b) /\ PrimaryExhausted(b) /\ Len(SleepsOf(b)) = 2
    /\ Returned(d) /\ Delivered(d) /\ Len(AttemptsOf(d)) = 2 /\ Len(SleepsOf(d)) = 1

\* C18 (as claimed): every SMTP attempt of a batch has its row in
\* email_log.csv, and once send_email has returned the batch has at least one
\* row, the last one carrying the final status.
C18_EveryAttemptLogged ==
  \A b \in 1..Len(batches) :
    /\ Len(LogOf(b)) = Len(AttemptsOf(b))
    /\ Returned(b) =>
         /\ LogOf(b) # <<>>
         /\ LogOf(b)[Len(LogOf(b))].status = (IF Delivered(b) THEN "Terkirim" ELSE "Gagal")

\* C19: a batch has no outcome message before send_email has returned, and
\* exactly one from the call of bot.send_message on, sent to the batch's chat,
\* with the success text iff send_email returned true (that is, iff an SMTP
\* attempt of the batch succeeded); while that call is awaited the buffer is
\* still there; once it has returned or raised, and whatever send_email
\* returned, the flush has written its message_log row and removed the
\* buffer: the chat has a buffer afterwards only if an append came later.
C19_OneNotificationPerBatch ==
  \A b \in 1..Len(batches) :
    LET N == NotificationsOf(b)
        c == batches[b].chat
    IN IF ~(Notifying(b) \/ Finished(b))
         THEN N = <<>>
         ELSE /\ Len(N) = 1
              /\ N[1].chat = c
              /\ N[1].success <=> \E i \in 1..Len(AttemptsOf(b)) : AttemptsOf(b)[i].ok
              /\ Notifying(b) => N[1].state = "pending" /\ c \in DOMAIN per_chat_buffers
              /\ Finished(b) =>
                   /\ N[1].state \in {"sent", "raised"}
                   /\ Len(message_log) >= Cardinality({d \in 1..b : Finished(d)})
                   /\ (\A p \in AppendsOf(c) : p <= batches[b].n) =>
                        c \notin DOMAIN per_chat_buffers

\* C19 witness: two flushes have ended whose outcome message could not be
\* sent, one of a delivered batch and one of a failed batch, and the chat has
\* no buffer.
C19_Witness ==
  \E b, d \in 1..Len(batches) :
    /\ Finished(b) /\ Finished(d)
    /\ NotificationsOf(b)[1].success /\ NotificationsOf(b)[1].state = "raised"
    /\ ~NotificationsOf(d)[1].success /\ NotificationsOf(d)[1].state = "raised"
    /\ batches[b].chat \notin DOMAIN per_chat_buffers

\* C20: whenever no coroutine holds or awaits buffers_lock, every buffer holds
\* at least one text; its timer_handle is set and is the handle armed by the
\* last append to its chat, whose callback or flush task is still to run; and
\* its username and first_name are those of the event that created it.
C20_BufferHasTextsAndTimer ==
  buffers_lock = <<>> =>
    \A c \in DOMAIN per_chat_buffers :
      LET buf == per_chat_buffers[c]
          creator == Msg(appends[CreatingAppend(c)].e)
      IN /\ Len(buf.texts) >= 1
         /\ buf.timer_handle # 0
         /\ buf.timer_handle = LastAppend(c)
         /\ timers[buf.timer_handle].chat = c
         /\ timers[buf.timer_handle].state \in {"armed", "fired"}
         /\ buf.username = OrDash(creator.username)
         /\ buf.first_name = OrDash(creator.first_name)

\* C20 witness: the lock is free again after a flush task has run, and a
\* buffer holds the texts of two events with different senders, the timer of
\* the first having been cancelled.
C20_Witness ==
  /\ buffers_lock = <<>>
  /\ \E k \in 1..Len(timers) : timers[k].state = "done"
  /\ \E c \in DOMAIN per_chat_buffers :
       /\ Len(per_chat_buffers[c].texts) >= 2
       /\ Msg(appends[LastAppend(c)].e).username # Msg(appends[CreatingAppend(c)].e).username
       /\ \E k \in 1..Len(timers) : timers[k].chat = c /\ timers[k].state = "cancelled"

\* the handler of the n-th message of Telebot.py has ended
RelayEnded(n) == n < Len(relay_msgs) \/ (n = Len(relay_msgs) /\ relay_pc = "idle")

\* C21 (as claimed): once the handler of a message of Telebot.py has ended,
\* send_email made exactly one SMTP exchange for it, email_log.csv has exactly
\* one row for it, and exactly one reply was sent, the success reply iff the
\* exchange worked (send_email returned "Terkirim"), else the error reply
\* with the status; an SMTP exception alone never ends the handler.
C21_OneSendOneRowOneReply ==
  \A n \in 1..Len(relay_msgs) :
    RelayEnded(n) =>
      LET A == SelectSeq(relay_smtp, LAMBDA a : a.msg = n)
          L == SelectSeq(relay_email_log, LAMBDA r : r.msg = n)
          R == SelectSeq(relay_replies, LAMBDA r : r.msg = n)
      IN /\ Len(A) = 1 /\ Len(L) = 1 /\ Len(R) = 1
         /\ R[1].success <=> A[1].ok
         /\ R[1].success <=> L[1].status = "Terkirim"
         /\ R[1].status = L[1].status

====
